---- MODULE Spec2Model ----
(***************************************************************************)
(* A model of the AskMyCourse package (src/ask-my-course/_api/api.py):     *)
(* the asynchronous ingestion pipeline add_lecture -> transcribe_lecture   *)
(* -> index_lecture with its status markers, the sliding-window chunker of *)
(* index_lecture, the lecture listing, and the answer() handler with its   *)
(* chat history.                                                           *)
(*                                                                         *)
(* Every remote call of a pipeline stage (tag creation, tag deletion, file *)
(* refresh, vector insertion) is one step of that stage, so that the       *)
(* states between two calls are states of the model.  answer() is one     *)
(* step: it is a synchronous request.                                      *)
(***************************************************************************)
EXTENDS Integers, Sequences, FiniteSets, TLC

(***************************************************************************)
(* Bounds of the model.                                                    *)
(***************************************************************************)
\* longest transcript (in timestamp tokens) a transcription attaches in Spec
MaxTokens == 1
\* longest transcript (in timestamp tokens) indexed in IndexSpec
MaxChunkLen == 310
\* number of answer() calls in QASpec
MaxCalls == 2

\* the lectures (one file each), the video references and the inputs of answer()
LectureList == <<"lec1", "lec2">>
Lectures == {LectureList[i] : i \in 1..Len(LectureList)}
Urls == {"https://youtu.be/abc", "https://youtu.be/xyz"}
Questions == {"What is X?", "And how does it relate to Y?"}
NoSession == "<None>"
SessionArgs == {NoSession, "", "s1"}
\* texts the completion service may return for the answer prompt
RawAnswers == {<<"X", " ", "is", ".">>, <<" ", "X", " ", "is", ".", "\n">>}

(***************************************************************************)
(* Program constants.                                                      *)
(***************************************************************************)
context_window_size == 200
context_window_overlap == 50
top_k_docs_for_context == 2
default_chat_session_id == "default"
NoSourcesMessage ==
    <<"No sources found to answer your question. Please try another question.">>

Min(a, b) == IF a < b THEN a ELSE b

(***************************************************************************)
(* Transcription output.  A block carries one tag that is no timestamp and *)
(* n timestamp tags, one per word, in the order the service returns them   *)
(* (ascending or descending here).  The k-th word of the speech starts at  *)
(* character 5*(k-1) and at second k-1.                                    *)
(***************************************************************************)
Word(k) == IF k % 3 = 0 THEN "w0" ELSE IF k % 3 = 1 THEN "w1" ELSE "w2"

TimestampTag(k) ==
    [kind |-> "timestamp", name |-> Word(k),
     start_idx |-> 5 * (k - 1), end_idx |-> 5 * (k - 1) + 4,
     value |-> [start_time |-> k - 1, end_time |-> k]]

LanguageTag ==
    [kind |-> "language", name |-> "en", start_idx |-> 0, end_idx |-> 0,
     value |-> [start_time |-> 0, end_time |-> 0]]

BlockTags(n, descending) ==
    <<LanguageTag>> \o
    [k \in 1..n |-> IF descending THEN TimestampTag(n + 1 - k) ELSE TimestampTag(k)]

(***************************************************************************)
(* index_lecture, lines 107-129: filter, sort, window, document.           *)
(***************************************************************************)
\* [tag for tag in tags if tag.kind == "timestamp"]
Timestamps(tags) == SelectSeq(tags, LAMBDA t : t.kind = "timestamp")

\* sorted(timestamps, key=lambda x: x.start_idx): a stable merge sort.  Merge
\* moves a whole run at a time: the leading tags of a that do not come after
\* the head of b, then the leading tags of b that come before the head of a.
RunUpTo(a, key) == Cardinality({i \in 1..Len(a) : a[i].start_idx <= key})
RunBelow(b, key) == Cardinality({i \in 1..Len(b) : b[i].start_idx < key})

RECURSIVE Merge(_, _)
Merge(a, b) ==
    IF a = <<>> THEN b
    ELSE IF b = <<>> THEN a
    ELSE LET na == RunUpTo(a, Head(b).start_idx)
             nb == RunBelow(b, Head(a).start_idx)
         IN  IF na > 0
             THEN SubSeq(a, 1, na) \o Merge(SubSeq(a, na + 1, Len(a)), b)
             ELSE SubSeq(b, 1, nb) \o Merge(a, SubSeq(b, nb + 1, Len(b)))

RECURSIVE SortedByStartIdx(_)
SortedByStartIdx(s) ==
    IF Len(s) <= 1 THEN s
    ELSE LET h == Len(s) \div 2
         IN  Merge(SortedByStartIdx(SubSeq(s, 1, h)),
                   SortedByStartIdx(SubSeq(s, h + 1, Len(s))))

SortedTimestamps(tags) == SortedByStartIdx(Timestamps(tags))

\* a step that adds the overlap where the loop subtracts it
StrideOverlapAdded == context_window_size + context_window_overlap

\* context_window_size - context_window_overlap, the step of the range
Stride == context_window_size - context_window_overlap

\* a loop that runs its body once before it tests the bound
RangeStartsAtLeastOnce(n, step) ==
    [k \in 1..(IF n = 0 THEN 1 ELSE (n + step - 1) \div step) |-> (k - 1) * step]

\* a loop that skips a last window of fewer than two tokens
RangeStartsMinSize(n, step) ==
    [k \in 1..((n + step - 2) \div step) |-> (k - 1) * step]

\* range(0, n, step): the 0-based starts 0, step, 2*step, ... below n
RangeStarts(n, step) ==
    [k \in 1..((n + step - 1) \div step) |-> (k - 1) * step]

\* a slice that stops one token early
WindowEndShort(i) == i + context_window_size - 1

\* i + context_window_size, the exclusive end of the slice
WindowEnd(i) == i + context_window_size

\* s[i:j] of Python, 0-based, clipped to the sequence
Slice(s, i, j) == SubSeq(s, i + 1, Min(j, Len(s)))

\* the windows timestamps[i: i + context_window_size] of the loop, in order
Windows(timestamps) ==
    LET starts == RangeStarts(Len(timestamps), Stride)
    IN  [k \in 1..Len(starts) |-> Slice(timestamps, starts[k], WindowEnd(starts[k]))]

\* " ".join(names): the names with one separator between neighbours
Join(names) ==
    [j \in 1..(2 * Len(names) - 1) |-> IF j % 2 = 1 THEN names[(j + 1) \div 2] ELSE " "]

\* window[0] or window[-1] of an empty window raises IndexError
WindowRaises(window) == window = <<>>

\* a document whose start_idx is taken from the first token of the window
MakeDocumentFirstIdx(window, source) ==
    [page_content |-> Join([k \in 1..Len(window) |-> window[k].name]),
     metadata |-> [start_time |-> window[1].value.start_time,
                   end_time |-> window[Len(window)].value.end_time,
                   start_idx |-> window[1].start_idx,
                   end_idx |-> window[Len(window)].end_idx,
                   source |-> source]]

MakeDocument(window, source) ==
    [page_content |-> Join([k \in 1..Len(window) |-> window[k].name]),
     metadata |-> [start_time |-> window[1].value.start_time,
                   end_time |-> window[Len(window)].value.end_time,
                   start_idx |-> window[Len(window)].start_idx,
                   end_idx |-> window[Len(window)].end_idx,
                   source |-> source]]

\* the loop raises when a window it reaches is empty
ChunkRaises(timestamps) ==
    \E k \in 1..Len(Windows(timestamps)) : WindowRaises(Windows(timestamps)[k])

Documents(timestamps, source) ==
    LET ws == Windows(timestamps)
    IN  [k \in 1..Len(ws) |-> MakeDocument(ws[k], source)]

(***************************************************************************)
(* State.                                                                  *)
(***************************************************************************)
VARIABLES
    pc,            \* per lecture: the position of its pipeline
    url,           \* per lecture: the source argument handed down the stages
    importTask,    \* per lecture: state of file_create_task
    blockifyTask,  \* per lecture: state of transcribe_lecture_task
    fileTags,      \* per lecture: the tags of its file, as the store lists them
    tagCount,      \* per lecture: tags ever created on its file (tag ids)
    fileBlocks,    \* per lecture: the blocks of its file, each a tag sequence
    updTodo,       \* _update_file_status: ids of the status tags left to delete
    updStatus,     \* _update_file_status: the status argument
    updRet,        \* _update_file_status: where the caller resumes
    localBlocks,   \* index_lecture: blocks of the file object File.get returned
    timestamps,    \* index_lecture: the local list timestamps, once sorted
    documents,     \* index_lecture: the local list documents
    index,         \* the vector index: the documents inserted, in order
    failure,       \* per lecture: why its job failed, or "none"
    statusLog,     \* history: the status names written to the file, in order
    chatHistory,   \* per session: the stored turns, oldest first
    calls,         \* number of answer() calls made
    lastCall,      \* the last answer() call: arguments, generation calls, result
    answered       \* history: per session, the calls that returned a generated answer

pipelineVars == <<pc, url, importTask, blockifyTask, fileTags, tagCount, fileBlocks,
                  updTodo, updStatus, updRet, localBlocks, timestamps, documents,
                  index, failure, statusLog>>
qaVars == <<chatHistory, calls, lastCall, answered>>
vars == <<pipelineVars, qaVars>>

Sessions == (SessionArgs \ {NoSession, ""}) \cup {default_chat_session_id}

NoCall == [called |-> FALSE]

InitQA ==
    /\ chatHistory = [s \in Sessions |-> <<>>]
    /\ calls = 0
    /\ lastCall = NoCall
    /\ answered = [s \in Sessions |-> <<>>]

Init ==
    /\ pc = [f \in Lectures |-> "idle"]
    /\ url = [f \in Lectures |-> "none"]
    /\ importTask = [f \in Lectures |-> "none"]
    /\ blockifyTask = [f \in Lectures |-> "none"]
    /\ fileTags = [f \in Lectures |-> <<>>]
    /\ tagCount = [f \in Lectures |-> 0]
    /\ fileBlocks = [f \in Lectures |-> <<>>]
    /\ updTodo = [f \in Lectures |-> <<>>]
    /\ updStatus = [f \in Lectures |-> "none"]
    /\ updRet = [f \in Lectures |-> "none"]
    /\ localBlocks = [f \in Lectures |-> <<>>]
    /\ timestamps = [f \in Lectures |-> <<>>]
    /\ documents = [f \in Lectures |-> <<>>]
    /\ index = <<>>
    /\ failure = [f \in Lectures |-> "none"]
    /\ statusLog = [f \in Lectures |-> <<>>]
    /\ InitQA

(***************************************************************************)
(* Tags of a file.                                                         *)
(***************************************************************************)
TagsOfKind(tags, kind) == SelectSeq(tags, LAMBDA t : t.kind = kind)

\* Tag.create(client, file_id, kind, name): the file gains one tag.  The store
\* lists a file's tags in an order the program does not control: the new tag is
\* listed after the others, or (first) before them.
WithTag(f, kind, name, first) ==
    LET tag == [kind |-> kind, name |-> name, id |-> tagCount[f] + 1]
    IN  IF first THEN <<tag>> \o fileTags[f] ELSE Append(fileTags[f], tag)

\* tag.delete(): the file loses the tag of that id
WithoutTag(f, id) == SelectSeq(fileTags[f], LAMBDA t : t.id # id)

\* YouTube(source).title
Title(source) ==
    IF source = "https://youtu.be/abc" THEN "Lecture abc" ELSE "Lecture xyz"

(***************************************************************************)
(* Job scheduling: invoke_later(..., wait_on_tasks=[task]) runs the method *)
(* once the task it waits on has succeeded.                                *)
(***************************************************************************)
\* a scheduler that runs the method as soon as it is submitted
JobRunnableNoWait(task) == task \in {"running", "succeeded", "failed"}

\* a scheduler that runs the method once the task has ended, however it ended
JobRunnableAfterFailure(task) == task \in {"succeeded", "failed"}

JobRunnable(task) == task = "succeeded"

(***************************************************************************)
(* add_lecture, lines 152-163.                                             *)
(***************************************************************************)
AddLecture(f, youtube_url) ==
    /\ pc[f] = "idle"
    /\ importTask' = [importTask EXCEPT ![f] = "running"]
    /\ url' = [url EXCEPT ![f] = youtube_url]
    /\ pc' = [pc EXCEPT ![f] = "tr_wait"]
    /\ UNCHANGED <<blockifyTask, fileTags, tagCount, fileBlocks, updTodo, updStatus,
                   updRet, localBlocks, timestamps, documents, index, failure, statusLog, qaVars>>

\* the import plugin finishes: the file exists
ImportCompletes(f) ==
    /\ importTask[f] = "running"
    /\ importTask' = [importTask EXCEPT ![f] = "succeeded"]
    /\ UNCHANGED <<pc, url, blockifyTask, fileTags, tagCount, fileBlocks, updTodo,
                   updStatus, updRet, localBlocks, timestamps, documents, index, failure,
                   statusLog, qaVars>>

ImportFails(f) ==
    /\ importTask[f] = "running"
    /\ importTask' = [importTask EXCEPT ![f] = "failed"]
    /\ UNCHANGED <<pc, url, blockifyTask, fileTags, tagCount, fileBlocks, updTodo,
                   updStatus, updRet, localBlocks, timestamps, documents, index, failure,
                   statusLog, qaVars>>

(***************************************************************************)
(* _update_file_status, lines 88-98, called with (status, return position).*)
(***************************************************************************)
CallUpdate(f, status, ret) ==
    /\ updStatus' = [updStatus EXCEPT ![f] = status]
    /\ updRet' = [updRet EXCEPT ![f] = ret]
    /\ pc' = [pc EXCEPT ![f] = "upd_refresh"]

\* file.refresh() and the list status_tags
UpdateRefresh(f) ==
    /\ pc[f] = "upd_refresh"
    /\ updTodo' = [updTodo EXCEPT ![f] =
           LET st == TagsOfKind(fileTags[f], "status")
           IN  [k \in 1..Len(st) |-> st[k].id]]
    /\ pc' = [pc EXCEPT ![f] = "upd_loop"]
    /\ UNCHANGED <<url, importTask, blockifyTask, fileTags, tagCount, fileBlocks,
                   updStatus, updRet, localBlocks, timestamps, documents, index, failure,
                   statusLog, qaVars>>

\* status_tag.delete() succeeds
UpdateDelete(f) ==
    /\ pc[f] = "upd_loop"
    /\ updTodo[f] # <<>>
    /\ \E k \in 1..Len(fileTags[f]) : fileTags[f][k].id = Head(updTodo[f])
    /\ fileTags' = [fileTags EXCEPT ![f] = WithoutTag(f, Head(updTodo[f]))]
    /\ updTodo' = [updTodo EXCEPT ![f] = Tail(updTodo[f])]
    /\ UNCHANGED <<pc, url, importTask, blockifyTask, tagCount, fileBlocks, updStatus,
                   updRet, localBlocks, timestamps, documents, index, failure, statusLog, qaVars>>

\* a deletion whose SteamshipError is not caught: the job fails
UpdateDeleteAborts(f) ==
    /\ pc[f] = "upd_loop"
    /\ updTodo[f] # <<>>
    /\ pc' = [pc EXCEPT ![f] = "failed"]
    /\ failure' = [failure EXCEPT ![f] = "delete"]
    /\ UNCHANGED <<url, importTask, blockifyTask, fileTags, tagCount, fileBlocks,
                   updTodo, updStatus, updRet, localBlocks, timestamps, documents,
                   index, statusLog, qaVars>>

\* status_tag.delete() raises SteamshipError, which is passed over
UpdateDeleteFails(f) ==
    /\ pc[f] = "upd_loop"
    /\ updTodo[f] # <<>>
    /\ updTodo' = [updTodo EXCEPT ![f] = Tail(updTodo[f])]
    /\ UNCHANGED <<pc, url, importTask, blockifyTask, fileTags, tagCount, fileBlocks,
                   updStatus, updRet, localBlocks, timestamps, documents, index, failure,
                   statusLog, qaVars>>

\* Tag.create(kind="status", name=status), and the return to the caller.  Where
\* the new marker is listed matters only when another status marker is left.
UpdateCreate(f, first) ==
    /\ pc[f] = "upd_loop"
    /\ updTodo[f] = <<>>
    /\ first => TagsOfKind(fileTags[f], "status") # <<>>
    /\ fileTags' = [fileTags EXCEPT ![f] = WithTag(f, "status", updStatus[f], first)]
    /\ tagCount' = [tagCount EXCEPT ![f] = @ + 1]
    /\ statusLog' = [statusLog EXCEPT ![f] = Append(@, updStatus[f])]
    /\ pc' = [pc EXCEPT ![f] = updRet[f]]
    /\ UNCHANGED <<url, importTask, blockifyTask, fileBlocks, updTodo, updStatus,
                   updRet, localBlocks, timestamps, documents, index, failure, qaVars>>

(***************************************************************************)
(* transcribe_lecture, lines 134-150.                                      *)
(***************************************************************************)
\* stages that all work with the source of the first lecture
SourceArgShared(f) == url[LectureList[1]]

\* the source argument add_lecture hands to the stages of f through invoke_later
SourceArg(f) == url[f]

\* the job starts: Task.get, File.get, Tag.create(kind="source")
TranscribeStart(f) ==
    /\ pc[f] = "tr_wait"
    /\ JobRunnable(importTask[f])
    /\ fileTags' = [fileTags EXCEPT ![f] = WithTag(f, "source", SourceArg(f), FALSE)]
    /\ tagCount' = [tagCount EXCEPT ![f] = @ + 1]
    /\ pc' = [pc EXCEPT ![f] = "tr_title"]
    /\ UNCHANGED <<url, importTask, blockifyTask, fileBlocks, updTodo, updStatus,
                   updRet, localBlocks, timestamps, documents, index, failure, statusLog, qaVars>>

\* YouTube(source).title resolves: Tag.create(kind="title"), then the status call
TranscribeTitle(f) ==
    /\ pc[f] = "tr_title"
    /\ fileTags' = [fileTags EXCEPT ![f] = WithTag(f, "title", Title(SourceArg(f)), FALSE)]
    /\ tagCount' = [tagCount EXCEPT ![f] = @ + 1]
    /\ CallUpdate(f, "Transcribing", "tr_blockify")
    /\ UNCHANGED <<url, importTask, blockifyTask, fileBlocks, updTodo, localBlocks,
                   timestamps, documents, index, failure, statusLog, qaVars>>

\* YouTube(source).title raises: the job fails
TranscribeTitleFails(f) ==
    /\ pc[f] = "tr_title"
    /\ pc' = [pc EXCEPT ![f] = "failed"]
    /\ failure' = [failure EXCEPT ![f] = "title"]
    /\ UNCHANGED <<url, importTask, blockifyTask, fileTags, tagCount, fileBlocks,
                   updTodo, updStatus, updRet, localBlocks, timestamps, documents, index,
                   statusLog, qaVars>>

\* file.blockify(...) and invoke_later("index_lecture", wait_on_tasks=[that task])
TranscribeBlockify(f) ==
    /\ pc[f] = "tr_blockify"
    /\ blockifyTask' = [blockifyTask EXCEPT ![f] = "running"]
    /\ pc' = [pc EXCEPT ![f] = "ix_wait"]
    /\ UNCHANGED <<url, importTask, fileTags, tagCount, fileBlocks, updTodo, updStatus,
                   updRet, localBlocks, timestamps, documents, index, failure, statusLog, qaVars>>

\* the transcription finishes: one block with its tags is attached to the file
BlockifyCompletes(f, n, descending) ==
    /\ blockifyTask[f] = "running"
    /\ blockifyTask' = [blockifyTask EXCEPT ![f] = "succeeded"]
    /\ fileBlocks' = [fileBlocks EXCEPT ![f] = <<BlockTags(n, descending)>>]
    /\ UNCHANGED <<pc, url, importTask, fileTags, tagCount, updTodo, updStatus, updRet,
                   localBlocks, timestamps, documents, index, failure, statusLog, qaVars>>

BlockifyFails(f) ==
    /\ blockifyTask[f] = "running"
    /\ blockifyTask' = [blockifyTask EXCEPT ![f] = "failed"]
    /\ UNCHANGED <<pc, url, importTask, fileTags, tagCount, fileBlocks, updTodo,
                   updStatus, updRet, localBlocks, timestamps, documents, index, failure,
                   statusLog, qaVars>>

(***************************************************************************)
(* index_lecture, lines 100-132.                                           *)
(***************************************************************************)
\* an index stage that marks the lecture Indexed on entry
IndexEntryStatusIndexed == "Indexed"

\* the status written on entry and the status written before returning
IndexEntryStatus == "Indexing"
IndexExitStatus == "Indexed"

\* the job starts: Task.get, File.get, then the first status call
IndexStart(f) ==
    /\ pc[f] = "ix_wait"
    /\ JobRunnable(blockifyTask[f])
    /\ localBlocks' = [localBlocks EXCEPT ![f] = fileBlocks[f]]
    /\ CallUpdate(f, IndexEntryStatus, "ix_chunk")
    /\ UNCHANGED <<url, importTask, blockifyTask, fileTags, tagCount, fileBlocks,
                   updTodo, timestamps, documents, index, failure, statusLog, qaVars>>

\* tags = file.blocks[0].tags and the loop that builds documents
IndexChunk(f) ==
    /\ pc[f] = "ix_chunk"
    /\ IF localBlocks[f] = <<>>
       THEN /\ pc' = [pc EXCEPT ![f] = "failed"]
            /\ failure' = [failure EXCEPT ![f] = "blocks"]
            /\ UNCHANGED <<timestamps, documents>>
       ELSE LET sorted == SortedTimestamps(localBlocks[f][1])
            IN  /\ timestamps' = [timestamps EXCEPT ![f] = sorted]
                /\ IF ChunkRaises(sorted)
                   THEN /\ pc' = [pc EXCEPT ![f] = "failed"]
                        /\ failure' = [failure EXCEPT ![f] = "chunk"]
                        /\ UNCHANGED documents
                   ELSE /\ documents' = [documents EXCEPT ![f] =
                                             Documents(sorted, SourceArg(f))]
                        /\ pc' = [pc EXCEPT ![f] = "ix_add"]
                        /\ UNCHANGED failure
    /\ UNCHANGED <<url, importTask, blockifyTask, fileTags, tagCount, fileBlocks,
                   updTodo, updStatus, updRet, localBlocks, index, statusLog, qaVars>>

\* an index that skips the documents it already holds
AddDocumentsDedup(ix, docs) ==
    ix \o SelectSeq(docs, LAMBDA d : \A k \in 1..Len(ix) : ix[k] # d)

\* an index that loses the last document of every insertion
AddDocumentsDropsLast(ix, docs) ==
    ix \o SubSeq(docs, 1, Len(docs) - 1)

\* add_documents: the index grows by the documents, in order
AddDocuments(ix, docs) == ix \o docs

\* self._get_index().add_documents(documents), then the second status call
IndexAddDocuments(f) ==
    /\ pc[f] = "ix_add"
    /\ index' = AddDocuments(index, documents[f])
    /\ CallUpdate(f, IndexExitStatus, "ix_return")
    /\ UNCHANGED <<url, importTask, blockifyTask, fileTags, tagCount, fileBlocks,
                   updTodo, localBlocks, timestamps, documents, failure, statusLog, qaVars>>

\* add_documents raises after inserting the first k documents: the job fails
IndexAddDocumentsFails(f, k) ==
    /\ pc[f] = "ix_add"
    /\ k \in 0..Len(documents[f])
    /\ index' = AddDocuments(index, SubSeq(documents[f], 1, k))
    /\ pc' = [pc EXCEPT ![f] = "failed"]
    /\ failure' = [failure EXCEPT ![f] = "insert"]
    /\ UNCHANGED <<url, importTask, blockifyTask, fileTags, tagCount, fileBlocks,
                   updTodo, updStatus, updRet, localBlocks, timestamps, documents, statusLog,
                   qaVars>>

\* return True
IndexReturn(f) ==
    /\ pc[f] = "ix_return"
    /\ pc' = [pc EXCEPT ![f] = "done"]
    /\ UNCHANGED <<url, importTask, blockifyTask, fileTags, tagCount, fileBlocks,
                   updTodo, updStatus, updRet, localBlocks, timestamps, documents, index,
                   failure, statusLog, qaVars>>

(***************************************************************************)
(* get_lectures, lines 70-86: what the listing returns in the current      *)
(* state.  File.list returns the files that exist, in the order of         *)
(* LectureList, each with its tags as the store lists them.                *)
(***************************************************************************)
FileExists(f) == importTask[f] = "succeeded"

LectureEntry(tags) ==
    LET source_tags == TagsOfKind(tags, "source")
        status_tags == TagsOfKind(tags, "status")
        title_tags == TagsOfKind(tags, "title")
    IN  [source |-> IF source_tags # <<>> THEN source_tags[1].name ELSE "unknown",
         status |-> IF status_tags # <<>> THEN status_tags[1].name ELSE "unknown",
         title |-> IF title_tags # <<>> THEN title_tags[1].name ELSE "unknown"]

\* a reader that skips only the files without a source tag
IsListedSourceOnly(tags) == TagsOfKind(tags, "source") # <<>>

IsListed(tags) == TagsOfKind(tags, "source") # <<>> /\ TagsOfKind(tags, "status") # <<>>

GetLectures ==
    LET files == SelectSeq(LectureList, LAMBDA f : FileExists(f) /\ IsListed(fileTags[f]))
    IN  [k \in 1..Len(files) |-> LectureEntry(fileTags[files[k]])]

(***************************************************************************)
(* The ingestion pipeline.                                                 *)
(***************************************************************************)
UpdateStep(f) ==
    \/ UpdateRefresh(f)
    \/ UpdateDelete(f)
    \/ UpdateDeleteFails(f)
    \/ \E first \in BOOLEAN : UpdateCreate(f, first)

IndexStep(f) ==
    \/ IndexStart(f)
    \/ IndexChunk(f)
    \/ IndexAddDocuments(f)
    \/ \E k \in 0..Len(documents[f]) : IndexAddDocumentsFails(f, k)
    \/ IndexReturn(f)

Next ==
    \E f \in Lectures :
        \/ \E u \in Urls : AddLecture(f, u)
        \/ ImportCompletes(f)
        \/ ImportFails(f)
        \/ TranscribeStart(f)
        \/ TranscribeTitle(f)
        \/ TranscribeTitleFails(f)
        \/ TranscribeBlockify(f)
        \/ \E n \in 0..MaxTokens, d \in BOOLEAN : BlockifyCompletes(f, n, d)
        \/ BlockifyFails(f)
        \/ UpdateStep(f)
        \/ IndexStep(f)

Spec == Init /\ [][Next]_vars

(***************************************************************************)
(* The chat history store (chat_history.ChatHistory): load returns the     *)
(* turns of the session oldest first, append adds one turn at the end.     *)
(***************************************************************************)
ChatHistoryLoad(session) == chatHistory[session]

ChatHistoryAppend(turns, question, answer) ==
    Append(turns, [question |-> question, answer |-> answer])

(***************************************************************************)
(* The chain built by _get_chain, lines 49-68: a ChatVectorDBChain with a  *)
(* question generator, a "stuff" answer chain, top_k_docs_for_context = 2  *)
(* and return_source_documents.  One call condenses the question when the  *)
(* history is not empty (a completion call), retrieves the nearest chunks  *)
(* and asks the completion service for the answer; it returns the answer   *)
(* together with the retrieved chunks.                                     *)
(***************************************************************************)
\* the chunks a similarity search may return: k of them, fewer if the index is smaller
Retrieved(ix, k) ==
    LET m == Min(k, Len(ix))
    IN  {[j \in 1..m |-> ix[p[j]]] :
            p \in {q \in [1..m -> 1..Len(ix)] :
                      \A a, b \in 1..m : a # b => q[a] # q[b]}}

QaChain(question, chat_history, ix) ==
    {[answer |-> raw,
      source_documents |-> docs,
      generation |-> (IF chat_history # <<>> THEN <<"condense">> ELSE <<>>)
                     \o <<"answer">>] :
        raw \in RawAnswers, docs \in Retrieved(ix, top_k_docs_for_context)}

(***************************************************************************)
(* answer, lines 165-185.                                                  *)
(***************************************************************************)
Whitespace == {" ", "\n", "\t"}

\* str.strip()
RECURSIVE StripLeft(_)
StripLeft(s) ==
    IF s # <<>> /\ Head(s) \in Whitespace THEN StripLeft(Tail(s)) ELSE s

RECURSIVE StripRight(_)
StripRight(s) ==
    IF s # <<>> /\ s[Len(s)] \in Whitespace
    THEN StripRight(SubSeq(s, 1, Len(s) - 1))
    ELSE s

Strip(s) == StripRight(StripLeft(s))

\* chat_session_id or self.config.default_chat_session_id
ResolveSession(chat_session_id) ==
    IF chat_session_id \in {NoSession, ""}
    THEN default_chat_session_id
    ELSE chat_session_id

\* a handler that appends the turn before it looks at the sources
AnswerAppendsAlways(result) == TRUE

\* the branch on len(result["source_documents"]): is the turn appended?
AnswerAppends(result) == Len(result.source_documents) # 0

\* the dictionary the handler returns
AnswerReturn(result) ==
    IF Len(result.source_documents) = 0
    THEN [answer |-> NoSourcesMessage, sources |-> result.source_documents]
    ELSE [answer |-> Strip(result.answer), sources |-> result.source_documents]

Answer(question, chat_session_id) ==
    /\ calls < MaxCalls
    /\ LET session == ResolveSession(chat_session_id)
           history == ChatHistoryLoad(session)
       IN  \E result \in QaChain(question, history, index) :
               LET returned == AnswerReturn(result)
               IN  /\ chatHistory' =
                          IF AnswerAppends(result)
                          THEN [chatHistory EXCEPT ![session] =
                                    ChatHistoryAppend(history, question, result.answer)]
                          ELSE chatHistory
                   /\ lastCall' = [called |-> TRUE,
                                   question |-> question,
                                   session |-> session,
                                   generation |-> result.generation,
                                   returned |-> returned]
                   /\ answered' =
                          IF returned.answer # NoSourcesMessage
                          THEN [answered EXCEPT ![session] =
                                    Append(@, [question |-> question,
                                               answer |-> returned.answer])]
                          ELSE answered
    /\ calls' = calls + 1
    /\ UNCHANGED pipelineVars

(***************************************************************************)
(* The index stage alone: the states in which the transcribe stage of the  *)
(* first lecture has run and its transcription has attached n timestamp    *)
(* tokens, when no other lecture was added.                                *)
(***************************************************************************)
FirstLecture == LectureList[1]

Transcribed(f, source, n, descending) ==
    /\ pc = [g \in Lectures |-> IF g = f THEN "ix_wait" ELSE "idle"]
    /\ url = [g \in Lectures |-> IF g = f THEN source ELSE "none"]
    /\ importTask = [g \in Lectures |-> IF g = f THEN "succeeded" ELSE "none"]
    /\ blockifyTask = [g \in Lectures |-> IF g = f THEN "succeeded" ELSE "none"]
    /\ fileTags = [g \in Lectures |->
           IF g = f
           THEN <<[kind |-> "source", name |-> source, id |-> 1],
                  [kind |-> "title", name |-> Title(source), id |-> 2],
                  [kind |-> "status", name |-> "Transcribing", id |-> 3]>>
           ELSE <<>>]
    /\ tagCount = [g \in Lectures |-> IF g = f THEN 3 ELSE 0]
    /\ fileBlocks = [g \in Lectures |->
           IF g = f THEN <<BlockTags(n, descending)>> ELSE <<>>]
    /\ updTodo = [g \in Lectures |-> <<>>]
    /\ updStatus = [g \in Lectures |-> IF g = f THEN "Transcribing" ELSE "none"]
    /\ updRet = [g \in Lectures |-> IF g = f THEN "tr_blockify" ELSE "none"]
    /\ localBlocks = [g \in Lectures |-> <<>>]
    /\ timestamps = [g \in Lectures |-> <<>>]
    /\ documents = [g \in Lectures |-> <<>>]
    /\ index = <<>>
    /\ failure = [g \in Lectures |-> "none"]
    /\ statusLog = [g \in Lectures |-> IF g = f THEN <<"Transcribing">> ELSE <<>>]

InitIndex ==
    /\ \E n \in 0..MaxChunkLen, d \in BOOLEAN :
           Transcribed(FirstLecture, "https://youtu.be/abc", n, d)
    /\ InitQA

NextIndex == \E f \in Lectures : UpdateStep(f) \/ IndexStep(f)

IndexSpec == InitIndex /\ [][NextIndex]_vars

(***************************************************************************)
(* Re-indexing: index_lecture is a POST endpoint, so a client that holds   *)
(* the task_id and the source of a lecture can run it again after it       *)
(* returned.  The blockify task is still succeeded and the file still has  *)
(* its block.                                                              *)
(***************************************************************************)
MaxRuns == 2

\* the runs of index_lecture that wrote Indexed for f
RunsCompleted(f) == Len(SelectSeq(statusLog[f], LAMBDA st : st = "Indexed"))

\* index_lecture(task_id, source) is posted again for f
IndexAgain(f) ==
    /\ pc[f] = "done"
    /\ RunsCompleted(f) < MaxRuns
    /\ pc' = [pc EXCEPT ![f] = "ix_wait"]
    /\ UNCHANGED <<url, importTask, blockifyTask, fileTags, tagCount, fileBlocks,
                   updTodo, updStatus, updRet, localBlocks, timestamps, documents, index,
                   failure, statusLog, qaVars>>

InitReindex ==
    /\ \E n \in {0, MaxTokens, Stride + MaxTokens}, d \in BOOLEAN :
           Transcribed(FirstLecture, "https://youtu.be/abc", n, d)
    /\ InitQA

NextReindex == \E f \in Lectures : UpdateStep(f) \/ IndexStep(f) \/ IndexAgain(f)

ReindexSpec == InitReindex /\ [][NextReindex]_vars

(***************************************************************************)
(* Question answering while the first lecture is being indexed.            *)
(***************************************************************************)
InitAnswer ==
    /\ Transcribed(FirstLecture, "https://youtu.be/abc", MaxTokens, TRUE)
    /\ InitQA

NextAnswer ==
    \/ \E f \in Lectures : UpdateStep(f) \/ IndexStep(f)
    \/ \E q \in Questions, s \in SessionArgs : Answer(q, s)

QASpec == InitAnswer /\ [][NextAnswer]_vars

(***************************************************************************)
(* Where a lecture's pipeline stands.                                      *)
(***************************************************************************)
InUpdate(f) == pc[f] \in {"upd_refresh", "upd_loop"}

\* transcribe_lecture has started for f
TranscribeStarted(f) == pc[f] \notin {"idle", "tr_wait"}

\* index_lecture has started for f
IndexStarted(f) ==
    \/ pc[f] \in {"ix_chunk", "ix_add", "ix_return", "done"}
    \/ InUpdate(f) /\ updRet[f] \in {"ix_chunk", "ix_return"}
    \/ pc[f] = "failed" /\ failure[f] \in {"blocks", "chunk", "insert"}

\* index_lecture has built its list documents for f
DocsComputed(f) ==
    \/ pc[f] \in {"ix_add", "ix_return", "done"}
    \/ InUpdate(f) /\ updRet[f] = "ix_return"
    \/ pc[f] = "failed" /\ failure[f] = "insert"

StatusNames(f) ==
    LET st == TagsOfKind(fileTags[f], "status")
    IN  {st[k].name : k \in 1..Len(st)}

IsPrefix(s, t) == Len(s) <= Len(t) /\ s = SubSeq(t, 1, Len(s))

StatusOrder == <<"Transcribing", "Indexing", "Indexed">>

(***************************************************************************)
(* C1: the status markers written to a lecture's file are written in the   *)
(* order Transcribing, Indexing, Indexed, each at most once, and a file    *)
(* carries Indexed only if Indexing was written to it before.              *)
(***************************************************************************)
C1_StatusOrder ==
    \A f \in Lectures :
        /\ IsPrefix(statusLog[f], StatusOrder)
        /\ StatusNames(f) \subseteq {statusLog[f][k] : k \in 1..Len(statusLog[f])}
        /\ "Indexed" \in StatusNames(f) =>
               \E j, k \in 1..Len(statusLog[f]) :
                   j < k /\ statusLog[f][j] = "Indexing" /\ statusLog[f][k] = "Indexed"

\* a lecture went through the three stages and carries Indexed
C1_Witness ==
    \E f \in Lectures :
        pc[f] = "done" /\ statusLog[f] = StatusOrder /\ "Indexed" \in StatusNames(f)

(***************************************************************************)
(* C2: transcribe_lecture runs only once the import task has succeeded,    *)
(* and index_lecture only once the transcription task has succeeded; the   *)
(* blocks index_lecture reads are the transcription output on the file.    *)
(***************************************************************************)
C2_StagesWaitForTasks ==
    \A f \in Lectures :
        /\ TranscribeStarted(f) => importTask[f] = "succeeded"
        /\ IndexStarted(f) =>
               /\ blockifyTask[f] = "succeeded"
               /\ fileBlocks[f] # <<>>
               /\ localBlocks[f] = fileBlocks[f]

\* index_lecture is about to chunk a transcript that has tokens
C2_Witness ==
    \E f \in Lectures :
        /\ pc[f] = "ix_chunk"
        /\ localBlocks[f] # <<>>
        /\ Timestamps(localBlocks[f][1]) # <<>>

(***************************************************************************)
(* C3: in every reachable state a lecture's file carries at most one       *)
(* status marker, also when a marker deletion fails with SteamshipError.   *)
(***************************************************************************)
C3_AtMostOneStatus ==
    \A f \in Lectures : Len(TagsOfKind(fileTags[f], "status")) <= 1

(***************************************************************************)
(* C4: once index_lecture has returned for a lecture added with url (the   *)
(* import, the title lookup, the transcription and the indexing all        *)
(* succeeded), get_lectures lists it with that source, status Indexed and  *)
(* the resolved title.  Nothing changes the file after that point, so the  *)
(* listing the claim promises eventually and for ever is the listing here. *)
(***************************************************************************)
C4_IndexedListed ==
    \A f \in Lectures :
        pc[f] = "done" =>
            \E k \in 1..Len(GetLectures) :
                GetLectures[k] = [source |-> url[f], status |-> "Indexed",
                                  title |-> Title(url[f])]

(***************************************************************************)
(* The chunker claims are about the tokens index_lecture chunks: its list   *)
(* timestamps, which holds the timestamp tags of the first block it read.  *)
(***************************************************************************)
ChunkedTokens(f) == timestamps[f]

\* the 0-based window [i, min(i + W, L)) that starts k-1 strides in
ClaimWindowStart(k) == (k - 1) * (context_window_size - context_window_overlap)
ClaimWindowEnd(k, L) == Min(ClaimWindowStart(k) + context_window_size, L)

(***************************************************************************)
(* C5: the windows of the chunking loop cover every token: document k is   *)
(* built from the window [i, min(i+W, L)) with i = (k-1)*S (it starts at   *)
(* token i and ends at token min(i+W, L) - 1), and every index in [0, L)   *)
(* lies in one of these windows.                                           *)
(***************************************************************************)
C5_WindowsCoverTokens ==
    \A f \in Lectures :
        DocsComputed(f) =>
            LET ts == ChunkedTokens(f)
                L == Len(ts)
                docs == documents[f]
            IN  /\ L = Len(Timestamps(fileBlocks[f][1]))
                /\ \A k \in 1..Len(docs) :
                       /\ ClaimWindowStart(k) < L
                       /\ docs[k].metadata.start_time =
                              ts[ClaimWindowStart(k) + 1].value.start_time
                       /\ docs[k].metadata.end_idx = ts[ClaimWindowEnd(k, L)].end_idx
                /\ \A p \in 0..(L - 1) :
                       \E k \in 1..Len(docs) :
                           ClaimWindowStart(k) <= p /\ p < ClaimWindowEnd(k, L)

\* a transcript of more than two strides was chunked into three or more windows
C5_Witness ==
    \E f \in Lectures :
        /\ DocsComputed(f)
        /\ Len(ChunkedTokens(f)) > 2 * Stride
        /\ Len(documents[f]) >= 3

(***************************************************************************)
(* C6, as claimed: for L > W any two consecutive windows share exactly O   *)
(* tokens, the last O tokens of window k being the first O tokens of       *)
(* window k+1, the pair ending in the final window included.               *)
(***************************************************************************)
TokensOf(window) == {window[j] : j \in 1..Len(window)}

LastTokens(window, m) == SubSeq(window, Len(window) - m + 1, Len(window))

C6_ConsecutiveShareOverlap ==
    \A f \in Lectures :
        DocsComputed(f) /\ Len(ChunkedTokens(f)) > context_window_size =>
            LET ws == Windows(ChunkedTokens(f))
            IN  /\ Len(ws) = Len(documents[f])
                /\ \A k \in 1..(Len(ws) - 1) :
                       /\ Len(ws[k + 1]) >= context_window_overlap
                       /\ Cardinality(TokensOf(ws[k]) \cap TokensOf(ws[k + 1]))
                              = context_window_overlap
                       /\ LastTokens(ws[k], context_window_overlap)
                              = SubSeq(ws[k + 1], 1, context_window_overlap)

(***************************************************************************)
(* C6, amended: for L > W any two consecutive windows share exactly        *)
(* min(O, n) tokens, n being the length of the later window: the last      *)
(* min(O, n) tokens of window k are the first min(O, n) tokens of window   *)
(* k+1.  A final window of fewer than O tokens lies inside the one before. *)
(***************************************************************************)
C6_ConsecutiveShareUpToOverlap ==
    \A f \in Lectures :
        DocsComputed(f) /\ Len(ChunkedTokens(f)) > context_window_size =>
            LET ws == Windows(ChunkedTokens(f))
            IN  /\ Len(ws) = Len(documents[f])
                /\ \A k \in 1..(Len(ws) - 1) :
                       LET m == Min(context_window_overlap, Len(ws[k + 1]))
                       IN  /\ Cardinality(TokensOf(ws[k]) \cap TokensOf(ws[k + 1])) = m
                           /\ LastTokens(ws[k], m) = SubSeq(ws[k + 1], 1, m)
                           /\ Len(ws[k + 1]) < context_window_overlap =>
                                  /\ k + 1 = Len(ws)
                                  /\ TokensOf(ws[k + 1]) \subseteq TokensOf(ws[k])

\* a chunked transcript with a full pair of windows and a short final window
C6_Witness ==
    \E f \in Lectures :
        /\ DocsComputed(f)
        /\ Len(ChunkedTokens(f)) > context_window_size
        /\ LET ws == Windows(ChunkedTokens(f))
           IN  /\ Len(ws) = 3
               /\ Len(ws[1]) = context_window_size
               /\ Len(ws[3]) < context_window_overlap

(***************************************************************************)
(* C7: with no timestamp token on the file, index_lecture builds no chunk  *)
(* and the chunking does not raise: nothing is inserted into the vector    *)
(* index (IndexSpec indexes one lecture, so the index stays empty) and the *)
(* stage goes on to its end.                                               *)
(***************************************************************************)
C7_EmptyTranscript ==
    \A f \in Lectures :
        (/\ IndexStarted(f)
         /\ pc[f] # "ix_chunk"
         /\ ~(InUpdate(f) /\ updRet[f] = "ix_chunk")
         /\ localBlocks[f] # <<>>
         /\ Timestamps(localBlocks[f][1]) = <<>>)
        => /\ failure[f] \notin {"blocks", "chunk"}
           /\ documents[f] = <<>>
           /\ index = <<>>

\* index_lecture returned for a file without timestamp tokens
C7_Witness ==
    \E f \in Lectures :
        /\ pc[f] = "done"
        /\ Timestamps(localBlocks[f][1]) = <<>>
        /\ "Indexed" \in StatusNames(f)
        /\ index = <<>>

(***************************************************************************)
(* C8: one token yields exactly one chunk, whose content is that token's   *)
(* text and whose metadata is that token's; and whenever one token is left *)
(* after the last full stride, the last chunk is that single token.        *)
(***************************************************************************)
SingleTokenDocument(t, source) ==
    [page_content |-> <<t.name>>,
     metadata |-> [start_time |-> t.value.start_time,
                   end_time |-> t.value.end_time,
                   start_idx |-> t.start_idx,
                   end_idx |-> t.end_idx,
                   source |-> source]]

C8_SingleTokenChunk ==
    \A f \in Lectures :
        DocsComputed(f) =>
            LET ts == ChunkedTokens(f)
                L == Len(ts)
                docs == documents[f]
            IN  /\ L = 1 => docs = <<SingleTokenDocument(ts[1], url[f])>>
                /\ (L >= 1 /\ (L - 1) % (context_window_size - context_window_overlap) = 0)
                       => /\ Len(docs) = (L - 1) \div
                                 (context_window_size - context_window_overlap) + 1
                          /\ docs[Len(docs)] = SingleTokenDocument(ts[L], url[f])

\* a one-token transcript was chunked and its chunk inserted
C8_Witness ==
    \E f \in Lectures :
        /\ pc[f] = "done"
        /\ Len(ChunkedTokens(f)) = 1
        /\ Len(documents[f]) = 1
        /\ index = documents[f]

(***************************************************************************)
(* C9: when the retrieval of an answer() call returns no chunk, no         *)
(* completion call is made during that call, and the call returns the      *)
(* fixed no-sources message with an empty source list.                     *)
(***************************************************************************)
C9_NoGenerationWithoutSources ==
    (lastCall.called /\ lastCall.returned.sources = <<>>) =>
        /\ lastCall.generation = <<>>
        /\ lastCall.returned.answer = NoSourcesMessage

(***************************************************************************)
(* C10: a session's chat history holds exactly one turn per call on that   *)
(* session that returned a generated answer, in call order, with that      *)
(* call's question and the answer generated for it, and no turn for a call *)
(* that returned the no-sources message.                                   *)
(***************************************************************************)
C10_OneTurnPerAnsweredCall ==
    \A s \in Sessions :
        /\ Len(chatHistory[s]) = Len(answered[s])
        /\ \A k \in 1..Len(answered[s]) :
               /\ chatHistory[s][k].question = answered[s][k].question
               /\ Strip(chatHistory[s][k].answer) = answered[s][k].answer

\* two calls were made, one returned the no-sources message and the last one
\* a generated answer: its session holds that one turn, no other session any
C10_Witness ==
    /\ calls = 2
    /\ lastCall.called
    /\ lastCall.returned.answer # NoSourcesMessage
    /\ Len(chatHistory[lastCall.session]) = 1
    /\ chatHistory[lastCall.session][1].question = lastCall.question
    /\ \A s \in Sessions \ {lastCall.session} : chatHistory[s] = <<>>

(***************************************************************************)
(* C11: when the title lookup of transcribe_lecture fails, the stage       *)
(* leaves no partial record: the file has no source, title or status       *)
(* marker, and no transcription job or index stage was submitted.          *)
(***************************************************************************)
C11_NoPartialRecord ==
    \A f \in Lectures :
        (pc[f] = "failed" /\ failure[f] = "title") =>
            /\ fileTags[f] = <<>>
            /\ blockifyTask[f] = "none"

(***************************************************************************)
(* C12: once a stage of a lecture has failed (the import task, the         *)
(* transcription task, or a job of the pipeline, the vector insertion      *)
(* included), the file carries the last status that was written to it (or  *)
(* none), and no later step changes its markers, runs another of its       *)
(* stages or takes a chunk out of the index.                               *)
(***************************************************************************)
StageFailed(f) ==
    importTask[f] = "failed" \/ blockifyTask[f] = "failed" \/ pc[f] = "failed"

HasTag(tags, kind, name, id) ==
    \E k \in 1..Len(tags) : tags[k] = [kind |-> kind, name |-> name, id |-> id]

C13_DeleteFailureTolerated ==
    /\ [](\A f \in Lectures : InUpdate(f) => ENABLED UpdateStep(f))
    /\ [][\A f \in Lectures :
              /\ (pc[f] = "upd_loop" /\ updTodo'[f] # updTodo[f]) =>
                     /\ pc'[f] = "upd_loop"
                     /\ updTodo'[f] = Tail(updTodo[f])
                     /\ failure'[f] = "none"
              /\ (pc[f] = "upd_loop" /\ pc'[f] # "upd_loop") =>
                     /\ pc'[f] = updRet[f]
                     /\ failure'[f] = "none"
                     /\ HasTag(fileTags'[f], "status", updStatus[f], tagCount[f] + 1)
                     /\ tagCount'[f] = tagCount[f] + 1]_vars

\* index_lecture resumed after a status update in which the deletion failed
C13_Witness ==
    \E f \in Lectures :
        /\ pc[f] = "ix_chunk"
        /\ StatusNames(f) = {"Transcribing", "Indexing"}

(***************************************************************************)
(* C14: when a listed lecture's file carries more than one status marker,  *)
(* the status get_lectures reports is the name of the marker created last  *)
(* (the one with the largest id).                                          *)
(***************************************************************************)
NewestStatus(tags) ==
    LET status_tags == TagsOfKind(tags, "status")
        newest == CHOOSE k \in 1..Len(status_tags) :
                      \A j \in 1..Len(status_tags) : status_tags[j].id <= status_tags[k].id
    IN  status_tags[newest].name

C14_ReportsNewestStatus ==
    \A f \in Lectures :
        (/\ FileExists(f)
         /\ IsListed(fileTags[f])
         /\ Len(TagsOfKind(fileTags[f], "status")) > 1) =>
            LectureEntry(fileTags[f]).status = NewestStatus(fileTags[f])

(***************************************************************************)
(* C15: get_lectures returns one entry {source, status, title} for each    *)
(* file that has a source marker and a status marker, in file order, and   *)
(* none for any other file: a lecture whose import has not finished, or    *)
(* whose status marker is deleted and not yet replaced, is not listed.     *)
(***************************************************************************)
HasKind(f, kind) == \E k \in 1..Len(fileTags[f]) : fileTags[f][k].kind = kind

Complete(f) == FileExists(f) /\ HasKind(f, "source") /\ HasKind(f, "status")

CompleteBefore(f) ==
    {g \in Lectures : Complete(g) /\
        \E i, j \in 1..Len(LectureList) :
            i <= j /\ LectureList[i] = g /\ LectureList[j] = f}

C15_ListsCompleteFilesOnly ==
    /\ Len(GetLectures) = Cardinality({f \in Lectures : Complete(f)})
    /\ \A f \in Lectures :
           Complete(f) =>
               LET entry == GetLectures[Cardinality(CompleteBefore(f))]
               IN  /\ DOMAIN entry = {"source", "status", "title"}
                   /\ entry.source = url[f]
                   /\ entry.status \in StatusNames(f)
                   /\ entry.title \in {Title(url[f]), "unknown"}
                   /\ entry.title = "unknown" <=> ~HasKind(f, "title")

\* one lecture is listed while the other sits between the deletion of its old
\* status marker and the creation of the new one
C15_Witness ==
    \E f, g \in Lectures :
        /\ pc[f] = "upd_loop"
        /\ statusLog[f] # <<>>
        /\ HasKind(f, "source")
        /\ ~HasKind(f, "status")
        /\ Complete(g)
        /\ Len(GetLectures) = 1
        /\ importTask \in [Lectures -> {"succeeded"}]

(***************************************************************************)
(* C16: indexing is not idempotent.  After r runs of index_lecture for the *)
(* same lecture have returned, the index holds the lecture's chunks r      *)
(* times over (two copies of each after two runs), and no step of any run  *)
(* removes or replaces a chunk that is already in the index.               *)
(***************************************************************************)
Repeated(docs, r) ==
    [k \in 1..(r * Len(docs)) |-> docs[((k - 1) % Len(docs)) + 1]]

Copies(ix, d) == Cardinality({k \in 1..Len(ix) : ix[k] = d})

C16_ReindexDuplicates ==
    /\ [](\A f \in Lectures :
              pc[f] = "done" =>
                  /\ index = Repeated(documents[f], RunsCompleted(f))
                  /\ \A k \in 1..Len(documents[f]) :
                         Copies(index, documents[f][k]) = RunsCompleted(f))
    /\ [][IsPrefix(index, index')]_vars

\* the second run of a lecture of two chunks has returned
C16_Witness ==
    \E f \in Lectures :
        /\ pc[f] = "done"
        /\ RunsCompleted(f) = 2
        /\ Len(documents[f]) = 2
        /\ Len(index) = 4
        /\ index[3] = index[1]

(***************************************************************************)
(* C17: the stages of different lectures do not interfere.  A step changes *)
(* the pipeline position, the file markers, the blocks and the chunk list  *)
(* of one lecture at most; the source and title markers of a file and the  *)
(* source of every chunk built for it are the lecture's own; and under     *)
(* every interleaving a lecture that finishes has written Transcribing,    *)
(* Indexing, Indexed, carries Indexed, and has in the index the chunks     *)
(* that its own tokens and source give.                                    *)
(***************************************************************************)
Changed(f) ==
    \/ pc'[f] # pc[f]
    \/ fileTags'[f] # fileTags[f]
    \/ tagCount'[f] # tagCount[f]
    \/ fileBlocks'[f] # fileBlocks[f]
    \/ localBlocks'[f] # localBlocks[f]
    \/ documents'[f] # documents[f]
    \/ statusLog'[f] # statusLog[f]
    \/ updTodo'[f] # updTodo[f]

\* docs is a run of consecutive entries of ix
Occurs(docs, ix) ==
    \E i \in 0..(Len(ix) - Len(docs)) :
        \A k \in 1..Len(docs) : ix[i + k] = docs[k]

C17_LecturesIndependent ==
    /\ [](\A f \in Lectures :
              /\ \A k \in 1..Len(fileTags[f]) :
                     /\ fileTags[f][k].kind = "source" => fileTags[f][k].name = url[f]
                     /\ fileTags[f][k].kind = "title" => fileTags[f][k].name = Title(url[f])
              /\ DocsComputed(f) =>
                     /\ documents[f] = Documents(SortedTimestamps(fileBlocks[f][1]), url[f])
                     /\ \A k \in 1..Len(documents[f]) :
                            documents[f][k].metadata.source = url[f]
              /\ pc[f] = "done" =>
                     /\ statusLog[f] = StatusOrder
                     /\ "Indexed" \in StatusNames(f)
                     /\ Occurs(documents[f], index))
    /\ [][\A f, g \in Lectures : (Changed(f) /\ Changed(g)) => f = g]_vars

\* two lectures of different sources finished, the second one's chunk
\* inserted before the first one's
C17_Witness ==
    /\ \A f \in Lectures : pc[f] = "done"
    /\ url[LectureList[1]] # url[LectureList[2]]
    /\ Len(index) = 2
    /\ index[1].metadata.source = url[LectureList[2]]
    /\ index[2].metadata.source = url[LectureList[1]]

(***************************************************************************)
(* C18: after an answer() call that returned a generated answer, the       *)
(* answer stored in the new turn of the call's session is the trimmed      *)
(* answer, identical to the one returned to the caller.                    *)
(***************************************************************************)
C18_StoredAnswerIsReturned ==
    (lastCall.called /\ lastCall.returned.answer # NoSourcesMessage) =>
        LET turns == chatHistory[lastCall.session]
        IN  /\ turns # <<>>
            /\ turns[Len(turns)].question = lastCall.question
            /\ turns[Len(turns)].answer = lastCall.returned.answer

(***************************************************************************)
(* C19: for every window the chunking loop emits, the chunk's start_time   *)
(* is that of the window's first token, its end_time, start_idx and        *)
(* end_idx are those of the window's last token, its source is the source  *)
(* argument of index_lecture, and its content is the texts of the window's *)
(* tokens, in start_idx order, with one space between neighbours.          *)
(***************************************************************************)
C19_ChunkMetadata ==
    \A f \in Lectures :
        DocsComputed(f) =>
            LET ts == ChunkedTokens(f)
                L == Len(ts)
                docs == documents[f]
            IN  /\ TokensOf(ts) = TokensOf(Timestamps(fileBlocks[f][1]))
                /\ \A j \in 1..(L - 1) : ts[j].start_idx < ts[j + 1].start_idx
                /\ \A k \in 1..Len(docs) :
                       LET first == ClaimWindowStart(k) + 1
                           last == ClaimWindowEnd(k, L)
                           content == docs[k].page_content
                       IN  /\ first <= last
                           /\ docs[k].metadata.start_time = ts[first].value.start_time
                           /\ docs[k].metadata.end_time = ts[last].value.end_time
                           /\ docs[k].metadata.start_idx = ts[last].start_idx
                           /\ docs[k].metadata.end_idx = ts[last].end_idx
                           /\ docs[k].metadata.source = url[f]
                           /\ Len(content) = 2 * (last - first + 1) - 1
                           /\ \A j \in 1..(last - first + 1) :
                                  content[2 * j - 1] = ts[first + j - 1].name
                           /\ \A j \in 1..(last - first) : content[2 * j] = " "

\* tokens stored in descending order were chunked into two or more windows,
\* the first a full one
C19_Witness ==
    \E f \in Lectures :
        /\ DocsComputed(f)
        /\ Timestamps(fileBlocks[f][1]) # ChunkedTokens(f)
        /\ Len(documents[f]) >= 2
        /\ Len(documents[f][1].page_content) = 2 * context_window_size - 1
        /\ documents[f][1].metadata.start_idx # ChunkedTokens(f)[1].start_idx

(***************************************************************************)
(* C20: whenever a lecture's file carries the status Indexed, the chunks   *)
(* that index_lecture computed from its tokens are all in the vector       *)
(* index: Indexed is written only after add_documents has returned, and a  *)
(* lecture whose insertion has not completed, or has failed, shows at most *)
(* Indexing.                                                               *)
(***************************************************************************)
InsertionCompleted(f) ==
    \/ pc[f] \in {"ix_return", "done"}
    \/ InUpdate(f) /\ updRet[f] = "ix_return"

C20_IndexedAfterInsertion ==
    \A f \in Lectures :
        /\ ("Indexed" \in StatusNames(f) \/ updStatus[f] = "Indexed") =>
               /\ InsertionCompleted(f)
               /\ documents[f] = Documents(SortedTimestamps(fileBlocks[f][1]), url[f])
               /\ Occurs(documents[f], index)
        /\ ~InsertionCompleted(f) =>
               /\ StatusNames(f) \subseteq {"Transcribing", "Indexing"}
               /\ \A k \in 1..Len(statusLog[f]) : statusLog[f][k] # "Indexed"

\* the Indexed marker stands on a lecture of several chunks, all in the index
C20_Witness ==
    \E f \in Lectures :
        /\ pc[f] = "ix_return"
        /\ "Indexed" \in StatusNames(f)
        /\ Len(documents[f]) >= 2
        /\ index = documents[f]

====
